---- MODULE Spec2Model ----
(***************************************************************************)
(* Microfluidic channel geometry generators (comsol_simulation/scripts/    *)
(* geometry): the MicrochannelGeometry base class, TJunctionGeometry and   *)
(* YJunctionCorrected.                                                     *)
(*                                                                         *)
(* Numbers.  The code computes in floating point; the model computes the   *)
(* same expressions in exact rational arithmetic.  Every length and every  *)
(* coordinate v is held as the integer v * Den.  Branch angles are taken   *)
(* from the angles whose cosine and sine are rationals over Hyp (the       *)
(* Pythagorean triples with hypotenuse 65), so that cos, sin and every     *)
(* product the code forms are exact integers over Den.                     *)
(***************************************************************************)
EXTENDS Integers, Sequences, FiniteSets, TLC

\* ---------------------------------------------------------------- bounds
MaxLmain  == 3      \* L_main   ranges over 1..MaxLmain   (model length units)
MaxLbranch == 3     \* L_branch ranges over 1..MaxLbranch
MaxW      == 7      \* W, W_main range over 1..MaxW
MaxGen    == 3      \* at most MaxGen generate() calls on the instance
MaxNegW   == 2      \* a T-junction's W also ranges over -MaxNegW..0 (unguarded)

\* ------------------------------------------------------- number encoding
Hyp == 5 * 13
Den == 4 * Hyp

\* <<cos, sin>> * Hyp of the branch angles of the model, in increasing angle
\* (about 14.3, 22.6, 30.5, 36.9, 53.1, 59.5, 67.4 and 75.7 degrees).
AngleTable ==
    << <<63, 16>>, <<60, 25>>, <<56, 33>>, <<52, 39>>,
       <<39, 52>>, <<33, 56>>, <<25, 60>>, <<16, 63>> >>

\* np.cos(theta) * x and np.sin(theta) * x for x a multiple of Hyp
MulCos(a, x) == (AngleTable[a][1] * x) \div Hyp
MulSin(a, x) == (AngleTable[a][2] * x) \div Hyp

\* ------------------------------------------------------------- base_geometry
INLET    == "inlet"
OUTLET_1 == "outlet1"
OUTLET_2 == "outlet2"
WALL     == "wall"
BoundaryType == {INLET, OUTLET_1, OUTLET_2, WALL}

\* BoundarySegment(points, boundary_type, label)
BoundarySegment(points, boundary_type, label) ==
    [points |-> points, boundary_type |-> boundary_type, label |-> label]

\* MicrochannelGeometry.add_boundary: append one segment to the list
add_boundary(bs, points, boundary_type, label) ==
    Append(bs, BoundarySegment(points, boundary_type, label))

\* MicrochannelGeometry.__init__: unit_scale = 0.001 if units == 'mm' else 1.0,
\* held as the divisor d with unit_scale = 1/d
MilliDiv == 1000
\* (variant: the scale of 'mm' applied whatever the declared unit)
UnitDivAlwaysMilli(units) == MilliDiv
UnitDiv(units) == IF units = "mm" THEN MilliDiv ELSE 1

\* ------------------------------------------------------------- instances
\* Constructor arguments are given in whole model length units; the instance
\* holds them times Den.  NoJunctionX stands for the default junction_x = None.
NoJunctionX == 0 - 1

\* (variant: half_W set to the whole width)
TJunctionInitHalfNotHalved(L_main, L_branch, W, junction_x, units) ==
    [ class      |-> "TJunctionGeometry",
      units      |-> units,
      unit_div   |-> UnitDiv(units),
      W          |-> W * Den,
      L_main     |-> L_main * Den,
      L_branch   |-> L_branch * Den,
      junction_x |-> IF junction_x # NoJunctionX THEN junction_x * Den
                     ELSE (L_main * Den) \div 2,
      half_W     |-> W * Den,
      angle      |-> 0,
      geometry_params |->
          [ type |-> "T-junction", L_main |-> L_main * Den,
            L_branch |-> L_branch * Den, W |-> W * Den,
            junction_x |-> IF junction_x # NoJunctionX THEN junction_x * Den
                           ELSE (L_main * Den) \div 2,
            units |-> units, junction_angle |-> 90 ] ]

\* TJunctionGeometry.__init__
TJunctionInit(L_main, L_branch, W, junction_x, units) ==
    [ class      |-> "TJunctionGeometry",
      units      |-> units,
      unit_div   |-> UnitDiv(units),
      W          |-> W * Den,
      L_main     |-> L_main * Den,
      L_branch   |-> L_branch * Den,
      junction_x |-> IF junction_x # NoJunctionX THEN junction_x * Den
                     ELSE (L_main * Den) \div 2,
      half_W     |-> (W * Den) \div 2,
      angle      |-> 0,
      geometry_params |->
          [ type |-> "T-junction", L_main |-> L_main * Den,
            L_branch |-> L_branch * Den, W |-> W * Den,
            junction_x |-> IF junction_x # NoJunctionX THEN junction_x * Den
                           ELSE (L_main * Den) \div 2,
            units |-> units, junction_angle |-> 90 ] ]

\* TJunctionMicrofluidic.__init__ : lengths in mm whatever the units; self.W
\* is the width in micrometres, self.W_mm the width in mm
MicroPerMilli == 1000
TJunctionMicrofluidicInit(L_main, L_branch, W, junction_x, units) ==
    [ class      |-> "TJunctionMicrofluidic",
      units      |-> units,
      unit_div   |-> UnitDiv(units),
      W_mm       |-> W * Den,
      W          |-> W * MicroPerMilli * Den,
      L_main     |-> L_main * Den,
      L_branch   |-> L_branch * Den,
      junction_x |-> IF junction_x # NoJunctionX THEN junction_x * Den
                     ELSE (L_main * Den) \div 2,
      half_W     |-> (W * Den) \div 2,
      angle      |-> 0,
      geometry_params |->
          [ type |-> "T-junction-microfluidic", L_main_mm |-> L_main * Den,
            L_branch_mm |-> L_branch * Den, W_um |-> W * MicroPerMilli * Den,
            junction_x_mm |-> IF junction_x # NoJunctionX THEN junction_x * Den
                              ELSE (L_main * Den) \div 2,
            display_units |-> units, junction_angle |-> 90,
            application |-> "droplet_generation",
            structure |-> "based_on_tjunction" ] ]

\* YJunctionCorrected.__init__ ; branch_angle is an index of AngleTable
YJunctionInit(L_main, L_branch, W_main, branch_angle, units) ==
    [ class      |-> "YJunctionCorrected",
      units      |-> units,
      unit_div   |-> UnitDiv(units),
      W          |-> W_main * Den,
      L_main     |-> L_main * Den,
      L_branch   |-> L_branch * Den,
      junction_x |-> 0,
      half_W     |-> (W_main * Den) \div 2,
      angle      |-> branch_angle,
      geometry_params |->
          [ type |-> "Y-junction-corrected", L_main_mm |-> L_main * Den,
            L_branch_mm |-> L_branch * Den, W_main_mm |-> W_main * Den,
            W_branch_mm |-> (W_main * Den) \div 2,
            branch_angle_deg |-> branch_angle, units |-> units,
            source |-> "corrected_width_relationship",
            vertex_order |-> "1-9-8-7-6-5-3-4-2-1",
            flow_continuity |-> "A_inlet = A_outlet1 + A_outlet2" ] ]

\* YJunctionCorrected: W_branch = W_main / 2, half_W_branch = W_branch / 2
W_branch(g)      == g.W \div 2
\* (variant: the port half-width taken as the whole branch width)
half_W_branch_NotHalved(g) == W_branch(g)
half_W_branch(g) == W_branch(g) \div 2

\* ------------------------------------------------------------- tjunction.py
\* (variant: the same vertices listed in the opposite, clockwise, order)
TJunctionPolygonClockwise(g) ==
    LET hw == g.half_W
        Lm == g.L_main
        Lb == g.L_branch
        jx == g.junction_x
    IN  << <<0, -hw>>, <<jx - hw, -hw>>, <<jx - hw, 0>>, <<jx - hw, Lb>>,
           <<jx + hw, Lb>>, <<jx + hw, 0>>, <<jx + hw, hw>>, <<Lm, hw>>,
           <<Lm, -hw>>, <<0, -hw>> >>

\* (variant: a guard that returns no polygon for a width that is not positive)
TJunctionPolygonGuarded(g) ==
    LET hw == g.half_W
        Lm == g.L_main
        Lb == g.L_branch
        jx == g.junction_x
    IN  IF g.W <= 0 THEN << >>
        ELSE << <<0, -hw>>, <<Lm, -hw>>, <<Lm, hw>>, <<jx + hw, hw>>,
                <<jx + hw, 0>>, <<jx + hw, Lb>>, <<jx - hw, Lb>>, <<jx - hw, 0>>,
                <<jx - hw, -hw>>, <<0, -hw>> >>

\* TJunctionGeometry.generate: the ten vertices p1..p10 of outer_boundary
TJunctionPolygon(g) ==
    LET hw == g.half_W
        Lm == g.L_main
        Lb == g.L_branch
        jx == g.junction_x
    IN  << <<0, -hw>>,          \* p1
           <<Lm, -hw>>,         \* p2
           <<Lm, hw>>,          \* p3
           <<jx + hw, hw>>,     \* p4
           <<jx + hw, 0>>,      \* p5
           <<jx + hw, Lb>>,     \* p6
           <<jx - hw, Lb>>,     \* p7
           <<jx - hw, 0>>,      \* p8
           <<jx - hw, -hw>>,    \* p9
           <<0, -hw>> >>        \* p10

\* TJunctionGeometry.generate: the add_boundary calls, in order, applied to the
\* instance's current list bs
TJunctionBoundaries(g, bs) ==
    LET hw == g.half_W
        Lm == g.L_main
        Lb == g.L_branch
        jx == g.junction_x
        b1 == add_boundary(bs, << <<0, -hw>>, <<0, hw>> >>, INLET, "INLET")
        b2 == add_boundary(b1, << <<Lm, -hw>>, <<Lm, hw>> >>, OUTLET_1, "OUTLET1")
        b3 == add_boundary(b2, << <<jx - hw, Lb>>, <<jx + hw, Lb>> >>, OUTLET_2, "OUTLET2")
        b4 == add_boundary(b3, << <<0, -hw>>, <<Lm, -hw>> >>, WALL, "WALL-bottom")
        b5 == add_boundary(b4, << <<0, hw>>, <<jx - hw, hw>> >>, WALL, "WALL-top-left")
        b6 == add_boundary(b5, << <<jx - hw, hw>>, <<jx - hw, Lb>> >>, WALL, "WALL-branch-left")
        b7 == add_boundary(b6, << <<jx - hw, Lb>>, <<jx + hw, Lb>> >>, WALL, "WALL-branch-top")
        b8 == add_boundary(b7, << <<jx + hw, Lb>>, <<jx + hw, hw>> >>, WALL, "WALL-branch-right")
        b9 == add_boundary(b8, << <<jx + hw, hw>>, <<Lm, hw>> >>, WALL, "WALL-top-right")
    IN  b9

\* ------------------------------------------------- tjunction_microfluidic.py
\* TJunctionMicrofluidic.generate: outer_boundary = [p1, ..., p9, p1]
TJunctionMicrofluidicPolygon(g) ==
    LET hw == g.half_W
        Lm == g.L_main
        Lb == g.L_branch
        jx == g.junction_x
    IN  << <<0, -hw>>, <<Lm, -hw>>, <<Lm, hw>>, <<jx + hw, hw>>, <<jx + hw, 0>>,
           <<jx + hw, Lb>>, <<jx - hw, Lb>>, <<jx - hw, 0>>, <<jx - hw, -hw>>,
           <<0, -hw>> >>

\* TJunctionMicrofluidic.generate: the add_boundary calls, in order
TJunctionMicrofluidicBoundaries(g, bs) ==
    LET hw == g.half_W
        Lm == g.L_main
        Lb == g.L_branch
        jx == g.junction_x
        b1 == add_boundary(bs, << <<0, -hw>>, <<0, hw>> >>, INLET, "INLET")
        b2 == add_boundary(b1, << <<Lm, -hw>>, <<Lm, hw>> >>, OUTLET_1, "OUTLET1")
        b3 == add_boundary(b2, << <<jx - hw, Lb>>, <<jx + hw, Lb>> >>, OUTLET_2, "OUTLET2")
        b4 == add_boundary(b3, << <<0, -hw>>, <<Lm, -hw>> >>, WALL, "WALL-bottom")
        b5 == add_boundary(b4, << <<0, hw>>, <<jx - hw, hw>> >>, WALL, "WALL-top-left")
        b6 == add_boundary(b5, << <<jx - hw, hw>>, <<jx - hw, Lb>> >>, WALL, "WALL-branch-left")
        b7 == add_boundary(b6, << <<jx - hw, Lb>>, <<jx + hw, Lb>> >>, WALL, "WALL-branch-top")
        b8 == add_boundary(b7, << <<jx + hw, Lb>>, <<jx + hw, hw>> >>, WALL, "WALL-branch-right")
        b9 == add_boundary(b8, << <<jx + hw, hw>>, <<Lm, hw>> >>, WALL, "WALL-top-right")
    IN  b9

\* ---------------------------------------------------- yjunction_corrected.py
\* YJunctionCorrected.generate: the named vertices v1..v9
YVertex(g, k) ==
    LET hwm == g.half_W
        hwb == half_W_branch(g)
        Lm  == g.L_main
        Lb  == g.L_branch
        a   == g.angle
        \* upper_dir = (cos, sin), lower_dir = (cos, -sin)
        \* upper_normal = (-sin, cos), lower_normal = (-sin, -cos)
        upper_end_center == << Lm + MulCos(a, Lb), MulSin(a, Lb) >>
        lower_end_center == << Lm + MulCos(a, Lb), -MulSin(a, Lb) >>
    IN  CASE k = 1 -> <<0, -hwm>>
          [] k = 9 -> <<0, hwm>>
          [] k = 8 -> <<Lm, hwm>>
          [] k = 7 -> << upper_end_center[1] + (-MulSin(a, hwb)),
                         upper_end_center[2] + MulCos(a, hwb) >>
          [] k = 6 -> << upper_end_center[1] - (-MulSin(a, hwb)),
                         upper_end_center[2] - MulCos(a, hwb) >>
          [] k = 5 -> <<Lm, 0>>
          [] k = 3 -> << lower_end_center[1] - (-MulSin(a, hwb)),
                         lower_end_center[2] - (-MulCos(a, hwb)) >>
          [] k = 4 -> << lower_end_center[1] + (-MulSin(a, hwb)),
                         lower_end_center[2] + (-MulCos(a, hwb)) >>
          [] k = 2 -> <<Lm, -hwm>>

\* (variant: the two upper port vertices in the opposite order)
YJunctionPolygonPermuted(g) ==
    << YVertex(g, 1), YVertex(g, 9), YVertex(g, 8), YVertex(g, 6),
       YVertex(g, 7), YVertex(g, 5), YVertex(g, 3), YVertex(g, 4),
       YVertex(g, 2) >>

\* YJunctionCorrected.generate: outer_boundary = [v1, v9, v8, v7, v6, v5, v3, v4, v2]
YJunctionPolygon(g) ==
    << YVertex(g, 1), YVertex(g, 9), YVertex(g, 8), YVertex(g, 7),
       YVertex(g, 6), YVertex(g, 5), YVertex(g, 3), YVertex(g, 4),
       YVertex(g, 2) >>

\* (variant: the two outlet roles interchanged)
YJunctionBoundariesOutletsSwapped(g, bs) ==
    LET v(k) == YVertex(g, k)
        b1 == add_boundary(bs, << v(9), v(1) >>, INLET, "INLET")
        b2 == add_boundary(b1, << v(9), v(8) >>, WALL, "WALL-main-top")
        b3 == add_boundary(b2, << v(8), v(7) >>, WALL, "WALL-upper-outer")
        b4 == add_boundary(b3, << v(7), v(6) >>, OUTLET_2, "OUTLET2")
        b5 == add_boundary(b4, << v(6), v(5) >>, WALL, "WALL-upper-inner")
        b6 == add_boundary(b5, << v(5), v(3) >>, WALL, "WALL-lower-inner")
        b7 == add_boundary(b6, << v(3), v(4) >>, OUTLET_1, "OUTLET1")
        b8 == add_boundary(b7, << v(4), v(2) >>, WALL, "WALL-lower-outer")
        b9 == add_boundary(b8, << v(2), v(1) >>, WALL, "WALL-main-bottom")
    IN  b9

\* YJunctionCorrected.generate: the add_boundary calls, in order
YJunctionBoundaries(g, bs) ==
    LET v(k) == YVertex(g, k)
        b1 == add_boundary(bs, << v(9), v(1) >>, INLET, "INLET")
        b2 == add_boundary(b1, << v(9), v(8) >>, WALL, "WALL-main-top")
        b3 == add_boundary(b2, << v(8), v(7) >>, WALL, "WALL-upper-outer")
        b4 == add_boundary(b3, << v(7), v(6) >>, OUTLET_1, "OUTLET1")
        b5 == add_boundary(b4, << v(6), v(5) >>, WALL, "WALL-upper-inner")
        b6 == add_boundary(b5, << v(5), v(3) >>, WALL, "WALL-lower-inner")
        b7 == add_boundary(b6, << v(3), v(4) >>, OUTLET_2, "OUTLET2")
        b8 == add_boundary(b7, << v(4), v(2) >>, WALL, "WALL-lower-outer")
        b9 == add_boundary(b8, << v(2), v(1) >>, WALL, "WALL-main-bottom")
    IN  b9

\* ---------------------------------------------------- yjunction_symmetric.py
\* YJunctionSymmetric.__init__ ; branch_angle is an index of AngleTable
YJunctionSymmetricInit(L_main, L_branch, W, branch_angle, units) ==
    [ class      |-> "YJunctionSymmetric",
      units      |-> units,
      unit_div   |-> UnitDiv(units),
      L_main     |-> L_main * Den,
      L_branch   |-> L_branch * Den,
      W          |-> W * Den,
      half_W     |-> (W * Den) \div 2,
      angle      |-> branch_angle,
      geometry_params |->
          [ type |-> "Y-junction-symmetric", L_main_mm |-> L_main * Den,
            L_branch_mm |-> L_branch * Den, W_mm |-> W * Den,
            branch_angle_deg |-> branch_angle, symmetric |-> TRUE,
            units |-> units ] ]

\* YJunctionSymmetric.generate: the named points
YSymPoint(g, name) ==
    LET hw == g.half_W
        Lm == g.L_main
        Lb == g.L_branch
        a  == g.angle
        upper_branch_center == << Lm + MulCos(a, Lb), 0 + MulSin(a, Lb) >>
        lower_branch_center == << Lm + MulCos(a, Lb), 0 - MulSin(a, Lb) >>
        \* hw * upper_normal, hw * lower_normal
        hw_upper_normal == << -MulSin(a, hw), MulCos(a, hw) >>
        hw_lower_normal == << -MulSin(a, hw), -MulCos(a, hw) >>
    IN  CASE name = "inlet_bottom"      -> << 0, -hw >>
          [] name = "inlet_top"         -> << 0, hw >>
          [] name = "main_end_bottom"   -> << Lm, -hw >>
          [] name = "main_end_top"      -> << Lm, hw >>
          [] name = "upper_port_outer"  ->
                << upper_branch_center[1] + hw_upper_normal[1],
                   upper_branch_center[2] + hw_upper_normal[2] >>
          [] name = "upper_port_inner"  ->
                << upper_branch_center[1] - hw_upper_normal[1],
                   upper_branch_center[2] - hw_upper_normal[2] >>
          [] name = "lower_port_inner"  ->
                << lower_branch_center[1] + hw_lower_normal[1],
                   lower_branch_center[2] + hw_lower_normal[2] >>
          [] name = "lower_port_outer"  ->
                << lower_branch_center[1] - hw_lower_normal[1],
                   lower_branch_center[2] - hw_lower_normal[2] >>
          [] name = "bifurcation_point" -> << Lm, 0 >>

\* YJunctionSymmetric.generate: outer_boundary = np.array(vertices)
YJunctionSymmetricPolygon(g) ==
    << YSymPoint(g, "inlet_bottom"), YSymPoint(g, "main_end_bottom"),
       YSymPoint(g, "lower_port_outer"), YSymPoint(g, "lower_port_inner"),
       YSymPoint(g, "bifurcation_point"), YSymPoint(g, "upper_port_inner"),
       YSymPoint(g, "upper_port_outer"), YSymPoint(g, "main_end_top"),
       YSymPoint(g, "inlet_top") >>

\* YJunctionSymmetric.generate: the add_boundary calls, in order
YJunctionSymmetricBoundaries(g, bs) ==
    LET v(name) == YSymPoint(g, name)
        b1 == add_boundary(bs, << v("inlet_top"), v("inlet_bottom") >>, INLET, "INLET")
        b2 == add_boundary(b1, << v("inlet_bottom"), v("main_end_bottom") >>, WALL, "WALL-main-bottom")
        b3 == add_boundary(b2, << v("main_end_bottom"), v("lower_port_outer") >>, WALL, "WALL-lower-outer")
        b4 == add_boundary(b3, << v("lower_port_outer"), v("lower_port_inner") >>, OUTLET_2, "OUTLET2")
        b5 == add_boundary(b4, << v("lower_port_inner"), v("bifurcation_point") >>, WALL, "WALL-lower-inner")
        b6 == add_boundary(b5, << v("bifurcation_point"), v("upper_port_inner") >>, WALL, "WALL-upper-inner")
        b7 == add_boundary(b6, << v("upper_port_inner"), v("upper_port_outer") >>, OUTLET_1, "OUTLET1")
        b8 == add_boundary(b7, << v("upper_port_outer"), v("main_end_top") >>, WALL, "WALL-upper-outer")
        b9 == add_boundary(b8, << v("main_end_top"), v("inlet_top") >>, WALL, "WALL-main-top")
    IN  b9

\* -------------------------------------------------------------- yjunction.py
\* YJunctionGeometry.__init__ ; branch_angle is an index of AngleTable;
\* total_angle = branch_angle * 2 is held as the angle taken twice
YJunctionGeometryInit(L_main, L_branch, W, branch_angle, units) ==
    [ class      |-> "YJunctionGeometry",
      units      |-> units,
      unit_div   |-> UnitDiv(units),
      W          |-> W * Den,
      L_main     |-> L_main * Den,
      L_branch   |-> L_branch * Den,
      half_W     |-> (W * Den) \div 2,
      angle      |-> branch_angle,
      geometry_params |->
          [ type |-> "Y-junction", L_main |-> L_main * Den,
            L_branch |-> L_branch * Den, W |-> W * Den,
            branch_angle |-> branch_angle,
            total_angle |-> << branch_angle, branch_angle >>,
            units |-> units ] ]

\* YJunctionGeometry.generate: the named points
YGeomPoint(g, name) ==
    LET hw == g.half_W
        Lm == g.L_main
        Lb == g.L_branch
        a  == g.angle
        \* [Lm, 0] + Lb * upper_dir, [Lm, 0] + Lb * lower_dir
        upper_end_center == << Lm + MulCos(a, Lb), 0 + MulSin(a, Lb) >>
        lower_end_center == << Lm + MulCos(a, Lb), 0 + (-MulSin(a, Lb)) >>
        hw_upper_normal == << -MulSin(a, hw), MulCos(a, hw) >>
        hw_lower_normal == << -MulSin(a, hw), -MulCos(a, hw) >>
    IN  CASE name = "inlet_bottom"       -> << 0, -hw >>
          [] name = "inlet_top"          -> << 0, hw >>
          [] name = "main_end_bottom"    -> << Lm, -hw >>
          [] name = "main_end_top"       -> << Lm, hw >>
          [] name = "upper_outlet_left"  ->
                << upper_end_center[1] - hw_upper_normal[1],
                   upper_end_center[2] - hw_upper_normal[2] >>
          [] name = "upper_outlet_right" ->
                << upper_end_center[1] + hw_upper_normal[1],
                   upper_end_center[2] + hw_upper_normal[2] >>
          [] name = "lower_outlet_left"  ->
                << lower_end_center[1] - hw_lower_normal[1],
                   lower_end_center[2] - hw_lower_normal[2] >>
          [] name = "lower_outlet_right" ->
                << lower_end_center[1] + hw_lower_normal[1],
                   lower_end_center[2] + hw_lower_normal[2] >>

\* YJunctionGeometry.generate: outer_boundary, eight vertices
YJunctionGeometryPolygon(g) ==
    << YGeomPoint(g, "inlet_bottom"), YGeomPoint(g, "main_end_bottom"),
       YGeomPoint(g, "lower_outlet_left"), YGeomPoint(g, "lower_outlet_right"),
       YGeomPoint(g, "upper_outlet_right"), YGeomPoint(g, "upper_outlet_left"),
       YGeomPoint(g, "main_end_top"), YGeomPoint(g, "inlet_top") >>

\* YJunctionGeometry.generate: the add_boundary calls, in order
YJunctionGeometryBoundaries(g, bs) ==
    LET v(name) == YGeomPoint(g, name)
        b1  == add_boundary(bs, << v("inlet_bottom"), v("inlet_top") >>, INLET, "INLET")
        b2  == add_boundary(b1, << v("upper_outlet_right"), v("upper_outlet_left") >>, OUTLET_1, "OUTLET1")
        b3  == add_boundary(b2, << v("lower_outlet_right"), v("lower_outlet_left") >>, OUTLET_2, "OUTLET2")
        b4  == add_boundary(b3, << v("inlet_bottom"), v("main_end_bottom") >>, WALL, "WALL-bottom")
        b5  == add_boundary(b4, << v("main_end_bottom"), v("lower_outlet_left") >>, WALL, "WALL-lower-outer")
        b6  == add_boundary(b5, << v("lower_outlet_left"), v("lower_outlet_right") >>, WALL, "WALL-lower-end")
        b7  == add_boundary(b6, << v("lower_outlet_right"), v("upper_outlet_right") >>, WALL, "WALL-inner")
        b8  == add_boundary(b7, << v("upper_outlet_right"), v("upper_outlet_left") >>, WALL, "WALL-upper-end")
        b9  == add_boundary(b8, << v("upper_outlet_left"), v("main_end_top") >>, WALL, "WALL-upper-outer")
        b10 == add_boundary(b9, << v("main_end_top"), v("inlet_top") >>, WALL, "WALL-top")
    IN  b10

\* ------------------------------------------------- generate(), by class
\* the 'points' of the one polygon generate() returns
GeneratePolygon(g) ==
    IF g.class = "TJunctionGeometry" THEN TJunctionPolygon(g)
    ELSE IF g.class = "TJunctionMicrofluidic" THEN TJunctionMicrofluidicPolygon(g)
    ELSE IF g.class = "YJunctionSymmetric" THEN YJunctionSymmetricPolygon(g)
    ELSE IF g.class = "YJunctionGeometry" THEN YJunctionGeometryPolygon(g)
    ELSE YJunctionPolygon(g)

\* self.boundaries after generate(), from the list bs it had before
GenerateBoundaries(g, bs) ==
    IF g.class = "TJunctionGeometry" THEN TJunctionBoundaries(g, bs)
    ELSE IF g.class = "TJunctionMicrofluidic"
         THEN TJunctionMicrofluidicBoundaries(g, bs)
    ELSE IF g.class = "YJunctionSymmetric"
         THEN YJunctionSymmetricBoundaries(g, bs)
    ELSE IF g.class = "YJunctionGeometry"
         THEN YJunctionGeometryBoundaries(g, bs)
    ELSE YJunctionBoundaries(g, bs)

\* the label of the polygon generate() returns
PolygonLabel(g) ==
    IF g.class = "TJunctionGeometry" THEN "T_junction_domain"
    ELSE IF g.class = "TJunctionMicrofluidic" THEN "T_junction_microfluidic"
    ELSE IF g.class = "YJunctionSymmetric" THEN "Y_junction_symmetric"
    ELSE IF g.class = "YJunctionGeometry" THEN "Y_junction_domain"
    ELSE "Y_junction_corrected"

\* the dictionary generate() returns
GenerateReturn(g) ==
    [ polygons |-> << [ label  |-> PolygonLabel(g),
                        points |-> GeneratePolygon(g),
                        type   |-> "outer_boundary" ] >>,
      params   |-> g.geometry_params ]

\* ------------------------------------------- base_geometry.py, the queries
\* (variant: the search stops at the first segment of the role)
get_boundaries_by_type_FirstOnly(bs, boundary_type) ==
    LET Has(b) == b.boundary_type = boundary_type
        all == SelectSeq(bs, Has)
    IN  IF all = << >> THEN << >> ELSE << Head(all) >>

\* MicrochannelGeometry.get_boundaries_by_type
get_boundaries_by_type(bs, boundary_type) ==
    LET Has(b) == b.boundary_type = boundary_type
    IN  SelectSeq(bs, Has)

\* (variant: the inlet test is "fewer than one" instead of "other than one")
validate_boundaries_AtLeastOneInlet(bs) ==
    LET inlets  == get_boundaries_by_type(bs, INLET)
        outlets == get_boundaries_by_type(bs, OUTLET_1)
                       \o get_boundaries_by_type(bs, OUTLET_2)
        walls   == get_boundaries_by_type(bs, WALL)
        e0 == << >>
        e1 == IF Len(inlets) < 1
              THEN Append(e0, [error |-> "inlet count", actual |-> Len(inlets)])
              ELSE e0
        e2 == IF Len(outlets) < 1
              THEN Append(e1, [error |-> "too few outlets", actual |-> Len(outlets)])
              ELSE e1
        e3 == IF Len(walls) = 0
              THEN Append(e2, [error |-> "no wall", actual |-> 0])
              ELSE e2
    IN  << Len(e3) = 0, e3 >>

\* MicrochannelGeometry.validate_boundaries: <<is_valid, errors>>
validate_boundaries(bs) ==
    LET inlets  == get_boundaries_by_type(bs, INLET)
        outlets == get_boundaries_by_type(bs, OUTLET_1)
                       \o get_boundaries_by_type(bs, OUTLET_2)
        walls   == get_boundaries_by_type(bs, WALL)
        e0 == << >>
        e1 == IF Len(inlets) # 1
              THEN Append(e0, [error |-> "inlet count", actual |-> Len(inlets)])
              ELSE e0
        e2 == IF Len(outlets) < 1
              THEN Append(e1, [error |-> "too few outlets", actual |-> Len(outlets)])
              ELSE e1
        e3 == IF Len(walls) = 0
              THEN Append(e2, [error |-> "no wall", actual |-> 0])
              ELSE e2
    IN  << Len(e3) = 0, e3 >>

\* ------------------------------------------- base_geometry.py, the export
\* points * self.unit_scale ; an exported coordinate is held times
\* Den * MilliDiv, so a coordinate held as x (times Den) becomes
\* x * MilliDiv / unit_div
ScaleCoord(g, x) == (x * MilliDiv) \div g.unit_div

\* points[:, 0].tolist() and points[:, 1].tolist() of the scaled points
ExportX(g, points) == [i \in 1..Len(points) |-> ScaleCoord(g, points[i][1])]
ExportY(g, points) == [i \in 1..Len(points) |-> ScaleCoord(g, points[i][2])]

\* (variant: the boundaries exported with their x and y lists interchanged)
ExportRecordSwapped(g, data, bs) ==
    [ units      |-> "m",
      polygons   |-> [i \in 1..Len(data.polygons) |->
                        [ label |-> data.polygons[i].label,
                          x |-> ExportX(g, data.polygons[i].points),
                          y |-> ExportY(g, data.polygons[i].points) ]],
      boundaries |-> [i \in 1..Len(bs) |->
                        [ type  |-> bs[i].boundary_type,
                          label |-> bs[i].label,
                          x |-> ExportY(g, bs[i].points),
                          y |-> ExportX(g, bs[i].points) ]],
      params     |-> data.params ]

\* MicrochannelGeometry.export_for_comsol, after its generate() call returned
\* data and left the instance's list as bs
ExportRecord(g, data, bs) ==
    [ units      |-> "m",
      polygons   |-> [i \in 1..Len(data.polygons) |->
                        [ label |-> data.polygons[i].label,
                          x |-> ExportX(g, data.polygons[i].points),
                          y |-> ExportY(g, data.polygons[i].points) ]],
      boundaries |-> [i \in 1..Len(bs) |->
                        [ type  |-> bs[i].boundary_type,
                          label |-> bs[i].label,
                          x |-> ExportX(g, bs[i].points),
                          y |-> ExportY(g, bs[i].points) ]],
      params     |-> data.params ]

\* ----------------------------------------------------- plane geometry
\* (the measures the properties are stated with; exact integer arithmetic)
Sign(x) == IF x > 0 THEN 1 ELSE IF x < 0 THEN 0 - 1 ELSE 0
Min(a, b) == IF a < b THEN a ELSE b
Max(a, b) == IF a < b THEN b ELSE a

\* (a - o) x (b - o)
Cross(o, a, b) == (a[1] - o[1]) * (b[2] - o[2]) - (a[2] - o[2]) * (b[1] - o[1])

\* the point p lies on the closed segment a-b
OnSegment(p, a, b) ==
    /\ Cross(a, b, p) = 0
    /\ Min(a[1], b[1]) <= p[1] /\ p[1] <= Max(a[1], b[1])
    /\ Min(a[2], b[2]) <= p[2] /\ p[2] <= Max(a[2], b[2])

\* the closed segments a-b and c-d have a point in common
SegmentsMeet(a, b, c, d) ==
    \/ /\ Sign(Cross(c, d, a)) * Sign(Cross(c, d, b)) < 0
       /\ Sign(Cross(a, b, c)) * Sign(Cross(a, b, d)) < 0
    \/ OnSegment(a, c, d) \/ OnSegment(b, c, d)
    \/ OnSegment(c, a, b) \/ OnSegment(d, a, b)

\* the edges a-b and b-c, consecutive along a polygon, meet only in b
OnlyShareVertex(a, b, c) ==
    /\ a # b /\ b # c
    /\ ~OnSegment(a, b, c)
    /\ ~OnSegment(c, a, b)

\* the edges of a vertex list: closed implicitly (last vertex back to the
\* first) unless the list repeats its first vertex at the end
IsClosedList(P) == Len(P) > 1 /\ P[Len(P)] = P[1]
NumEdges(P) == IF IsClosedList(P) THEN Len(P) - 1 ELSE Len(P)
EdgeStart(P, i) == P[i]
EdgeEnd(P, i) == IF i = Len(P) THEN P[1] ELSE P[i + 1]

\* the polygon is simple: consecutive edges share their common vertex only,
\* any other two edges share no point
IsSimple(P) ==
    LET n == NumEdges(P)
        NextEdge(i) == IF i = n THEN 1 ELSE i + 1
    IN  /\ n >= 3
        /\ \A i \in 1..n :
              OnlyShareVertex(EdgeStart(P, i), EdgeEnd(P, i), EdgeEnd(P, NextEdge(i)))
        /\ \A i \in 1..n : \A j \in (i + 1)..n :
              (j # NextEdge(i) /\ i # NextEdge(j)) =>
                  ~SegmentsMeet(EdgeStart(P, i), EdgeEnd(P, i),
                                EdgeStart(P, j), EdgeEnd(P, j))

\* twice the shoelace signed area of the vertex list, taken in its order
RECURSIVE ShoelaceFrom(_, _)
ShoelaceFrom(P, i) ==
    IF i > Len(P) THEN 0
    ELSE LET a == P[i]
             b == IF i = Len(P) THEN P[1] ELSE P[i + 1]
         IN  (a[1] * b[2] - b[1] * a[2]) + ShoelaceFrom(P, i + 1)
SignedArea2(P) == ShoelaceFrom(P, 1)

\* the squared length of a two-point segment
SqLength(points) ==
    (points[2][1] - points[1][1]) * (points[2][1] - points[1][1])
  + (points[2][2] - points[1][2]) * (points[2][2] - points[1][2])

\* the two-point segment has length len (len held times Den, like the points)
HasLength(points, len) == len >= 0 /\ SqLength(points) = len * len

\* ================================================================ the machine
VARIABLES
    self,        \* the Geometry instance: its class and its fields
    boundaries,  \* self.boundaries, the accumulated BoundarySegment list
    ngen,        \* how many times generate() has run on the instance
    lastOp,      \* the operation that ran last
    ret,         \* what that operation returned
    arg,         \* the argument that operation was called with (<< >>: none)
    \* two instances whose generate() calls run concurrently
    insts,       \* thread i -> the Geometry instance it works on
    lists,       \* list object -> its content (the heap of boundary lists)
    phase,       \* thread i -> "idle", "running" or "returned"
    calls,       \* thread i -> add_boundary calls its generate() has made
    \* the DrawingBoard
    rectangles,    \* self.rectangles: the data (x1, y1, x2, y2) of the rectangles
    lines,         \* self.lines: the data (x1, y1, x2, y2) of the lines
    shapes_drawn,  \* self.shapes_drawn: (type, data) of every drawn shape
    raised,        \* the last handler ended in an exception
    \* BatchDataGenerator.process_single_case
    max_retries,   \* self.max_retries
    attempt,       \* the loop variable of process_single_case
    pc,            \* where the call stands: "top", "created", "simulated", "returned"
    client,        \* the local variable client (NoClient: None)
    live,          \* the COMSOL clients started and not cleared
    result         \* what process_single_case returned ("none": not yet)

geomVars == << self, boundaries, ngen, lastOp, ret, arg >>
concVars == << insts, lists, phase, calls >>
boardVars == << rectangles, lines, shapes_drawn, raised >>
batchVars == << max_retries, attempt, pc, client, live, result >>
\* what the operations of one part leave alone
notGeomVars == << concVars, boardVars, batchVars >>
notConcVars == << geomVars, boardVars, batchVars >>
notBoardVars == << geomVars, concVars, batchVars >>
notBatchVars == << geomVars, concVars, boardVars >>
vars == << geomVars, concVars, boardVars, batchVars >>

\* the part of the state a specification does not use stays as constructed
ConcIdle == insts = << >> /\ lists = << >> /\ phase = << >> /\ calls = << >>
BoardIdle ==
    rectangles = << >> /\ lines = << >> /\ shapes_drawn = << >> /\ raised = FALSE
BatchIdle ==
    /\ max_retries = 0 /\ attempt = 0 /\ pc = "idle"
    /\ client = 0 /\ live = {} /\ result = "none"
GeomIdle ==
    /\ self = << >> /\ boundaries = << >> /\ ngen = 0
    /\ lastOp = "init" /\ ret = << >> /\ arg = << >>

Units == {"mm", "m"}
\* the units given to the microfluidic variant: its default, and 'mm'
MicrofluidicUnits == {"um", "mm"}

\* the constructed instances
Instances ==
    { TJunctionInit(Lm, Lb, W, jx, u) :
        Lm \in 1..MaxLmain, Lb \in 1..MaxLbranch, W \in (0 - MaxNegW)..MaxW,
        jx \in {NoJunctionX} \cup 0..MaxLmain, u \in Units }
    \cup
    { YJunctionInit(Lm, Lb, W, a, u) :
        Lm \in 1..MaxLmain, Lb \in 1..MaxLbranch, W \in 1..MaxW,
        a \in 1..Len(AngleTable), u \in Units }
    \cup
    { YJunctionSymmetricInit(Lm, Lb, W, a, u) :
        Lm \in 1..MaxLmain, Lb \in 1..MaxLbranch, W \in 1..MaxW,
        a \in 1..Len(AngleTable), u \in Units }
    \cup
    { YJunctionGeometryInit(Lm, Lb, W, a, u) :
        Lm \in 1..MaxLmain, Lb \in 1..MaxLbranch, W \in 1..MaxW,
        a \in 1..Len(AngleTable), u \in Units }
    \cup
    { TJunctionMicrofluidicInit(Lm, Lb, W, jx, u) :
        Lm \in 1..MaxLmain, Lb \in 1..MaxLbranch, W \in 1..MaxW,
        jx \in {NoJunctionX} \cup 0..MaxLmain, u \in MicrofluidicUnits }

\* after construction: MicrochannelGeometry.__init__ leaves boundaries = []
Init ==
    /\ self \in Instances
    /\ boundaries = << >>
    /\ ngen = 0
    /\ lastOp = "init"
    /\ ret = << >>
    /\ arg = << >>
    /\ ConcIdle /\ BoardIdle /\ BatchIdle

\* geom.generate()
Generate ==
    /\ ngen < MaxGen
    /\ boundaries' = GenerateBoundaries(self, boundaries)
    /\ ret' = GenerateReturn(self)
    /\ ngen' = ngen + 1
    /\ lastOp' = "generate"
    /\ arg' = << >>
    /\ UNCHANGED << self, notGeomVars >>

\* geom.export_for_comsol(): data = self.generate(), then the scaled record
ExportForComsol ==
    /\ ngen < MaxGen
    /\ boundaries' = GenerateBoundaries(self, boundaries)
    /\ ret' = ExportRecord(self, GenerateReturn(self), boundaries')
    /\ ngen' = ngen + 1
    /\ lastOp' = "export_for_comsol"
    /\ arg' = << >>
    /\ UNCHANGED << self, notGeomVars >>

\* geom.validate_boundaries()
ValidateBoundaries ==
    /\ ret' = validate_boundaries(boundaries)
    /\ lastOp' = "validate_boundaries"
    /\ arg' = << >>
    /\ UNCHANGED << self, boundaries, ngen, notGeomVars >>

\* (variant: the query takes the segments it returns out of the list)
GetBoundariesByTypeRemoving ==
    \E t \in BoundaryType :
        /\ ret' = get_boundaries_by_type(boundaries, t)
        /\ boundaries' = LET Other(b) == b.boundary_type # t
                          IN  SelectSeq(boundaries, Other)
        /\ lastOp' = "get_boundaries_by_type"
        /\ arg' = t
        /\ UNCHANGED << self, ngen, notGeomVars >>

\* geom.get_boundaries_by_type(t)
GetBoundariesByType ==
    \E t \in BoundaryType :
        /\ ret' = get_boundaries_by_type(boundaries, t)
        /\ lastOp' = "get_boundaries_by_type"
        /\ arg' = t
        /\ UNCHANGED << self, boundaries, ngen, notGeomVars >>

Next ==
    \/ Generate
    \/ ExportForComsol
    \/ ValidateBoundaries
    \/ GetBoundariesByType

Spec == Init /\ [][Next]_vars

\* ------------------------------------------------ the base class on its own
\* An instance whose list is filled by add_boundary calls of any role, the
\* way a concrete generate() of any shape may fill it, and then queried.
MaxAdd == 4      \* at most MaxAdd add_boundary calls

InitBase ==
    /\ self \in { TJunctionInit(2, 2, 1, NoJunctionX, u) : u \in Units }
    /\ boundaries = << >>
    /\ ngen = 0
    /\ lastOp = "init"
    /\ ret = << >>
    /\ arg = << >>
    /\ ConcIdle /\ BoardIdle /\ BatchIdle

\* geom.add_boundary(points, t): the n-th call adds the segment (n,0)-(n,1),
\* with the default label
AddBoundary ==
    \E t \in BoundaryType :
        /\ Len(boundaries) < MaxAdd
        /\ boundaries' =
              LET n == (Len(boundaries) + 1) * Den
              IN  add_boundary(boundaries, << <<n, 0>>, <<n, Den>> >>, t, "")
        /\ lastOp' = "add_boundary"
        /\ ret' = << >>
        /\ arg' = t
        /\ UNCHANGED << self, ngen, notGeomVars >>

NextBase ==
    \/ AddBoundary
    \/ ValidateBoundaries
    \/ GetBoundariesByType

SpecBase == InitBase /\ [][NextBase]_vars

\* ------------------------------- generate() on two instances, concurrently
\* Two threads, each calling generate() once on its own instance.  A step is
\* one add_boundary call; the steps of the two threads interleave freely.
Threads == 1..2

\* the instances the threads are given
ConcInstances ==
    { TJunctionInit(2, 1, 1, NoJunctionX, "mm"),
      TJunctionInit(3, 2, 2, 1, "m"),
      YJunctionInit(2, 2, 2, 3, "mm"),
      YJunctionInit(1, 3, 4, 6, "mm") }

\* (variant: one list, created with the class, that every instance refers to)
ListOfClassLevel(i) == 1
\* MicrochannelGeometry.__init__: self.boundaries = [] makes a list of the
\* instance's own; ListOf(i) is the list object of thread i's instance
ListOf(i) == i

\* the add_boundary calls generate() makes on instance g, in order
GenerateCalls(g) == GenerateBoundaries(g, << >>)

InitConc ==
    /\ insts \in [Threads -> ConcInstances]
    /\ lists = [l \in { ListOf(i) : i \in Threads } |-> << >>]
    /\ phase = [i \in Threads |-> "idle"]
    /\ calls = [i \in Threads |-> 0]
    /\ GeomIdle /\ BoardIdle /\ BatchIdle

\* thread i enters generate(): the points are computed from the fields
CallGenerate ==
    \E i \in Threads :
        /\ phase[i] = "idle"
        /\ phase' = [phase EXCEPT ![i] = "running"]
        /\ UNCHANGED << insts, lists, calls, notConcVars >>

\* thread i makes its next self.add_boundary(...) call
AddBoundaryStep ==
    \E i \in Threads :
        /\ phase[i] = "running"
        /\ calls[i] < Len(GenerateCalls(insts[i]))
        /\ LET b == GenerateCalls(insts[i])[calls[i] + 1]
           IN  lists' = [lists EXCEPT ![ListOf(i)] =
                            add_boundary(@, b.points, b.boundary_type, b.label)]
        /\ calls' = [calls EXCEPT ![i] = @ + 1]
        /\ UNCHANGED << insts, phase, notConcVars >>

\* thread i returns from generate()
ReturnGenerate ==
    \E i \in Threads :
        /\ phase[i] = "running"
        /\ calls[i] = Len(GenerateCalls(insts[i]))
        /\ phase' = [phase EXCEPT ![i] = "returned"]
        /\ UNCHANGED << insts, lists, calls, notConcVars >>

NextConc ==
    \/ CallGenerate
    \/ AddBoundaryStep
    \/ ReturnGenerate

SpecConc == InitConc /\ [][NextConc]_vars

\* ------------------------------------------- interactive_drawing_board.py
\* Board coordinates are held in half millimetres.
MaxShapes == 3     \* a shape is drawn while fewer than MaxShapes are in any list
\* erase_at(..., threshold=0.5)
EraseThreshold == 1
\* where the mouse is pressed and released
BoardPoints == { <<0, 0>>, <<6, 2>> }

\* the sequence without its i-th element: list.pop(i - 1)
RemoveAt(seq, i) == SubSeq(seq, 1, i - 1) \o SubSeq(seq, i + 1, Len(seq))

\* on_mouse_release, rectangle tool: (x1, y1, x2, y2) with x1 <= x2, y1 <= y2
NormalisedRectangle(start, end) ==
    << IF end[1] - start[1] < 0 THEN end[1] ELSE start[1],
       IF end[2] - start[2] < 0 THEN end[2] ELSE start[2],
       IF end[1] - start[1] < 0 THEN start[1] ELSE end[1],
       IF end[2] - start[2] < 0 THEN start[2] ELSE end[2] >>

\* point_to_line_distance(px, py, x1, y1, x2, y2) < threshold, in squares
LineWithin(px, py, d, threshold) ==
    LET dx   == d[3] - d[1]
        dy   == d[4] - d[2]
        len2 == dx * dx + dy * dy
        dot  == (px - d[1]) * dx + (py - d[2]) * dy
        sq1  == (px - d[1]) * (px - d[1]) + (py - d[2]) * (py - d[2])
        sq2  == (px - d[3]) * (px - d[3]) + (py - d[4]) * (py - d[4])
    IN  IF len2 = 0 THEN sq1 < threshold * threshold
        ELSE IF dot <= 0 THEN sq1 < threshold * threshold       \* t = 0
        ELSE IF dot >= len2 THEN sq2 < threshold * threshold    \* t = 1
        ELSE sq1 * len2 - dot * dot < threshold * threshold * len2

\* erase_at: the test that picks the shape to erase
ShapeHit(shape, x, y) ==
    IF shape.type = "rectangle"
    THEN /\ shape.data[1] - EraseThreshold <= x /\ x <= shape.data[3] + EraseThreshold
         /\ shape.data[2] - EraseThreshold <= y /\ y <= shape.data[4] + EraseThreshold
    ELSE LineWithin(x, y, shape.data, EraseThreshold)

InitBoard ==
    /\ rectangles = << >>
    /\ lines = << >>
    /\ shapes_drawn = << >>
    /\ raised = FALSE
    /\ GeomIdle /\ ConcIdle /\ BatchIdle

\* key 1, then press at start and release at end inside the axes
DrawRectangle ==
    \E start \in BoardPoints, end \in BoardPoints :
        /\ Len(shapes_drawn) < MaxShapes /\ Len(rectangles) < MaxShapes
        /\ rectangles' = Append(rectangles, NormalisedRectangle(start, end))
        /\ shapes_drawn' = Append(shapes_drawn,
               [type |-> "rectangle", data |-> NormalisedRectangle(start, end)])
        /\ raised' = FALSE
        /\ UNCHANGED << lines, notBoardVars >>

\* key 2, then press at start and release at end inside the axes
DrawLine ==
    \E start \in BoardPoints, end \in BoardPoints :
        /\ Len(shapes_drawn) < MaxShapes /\ Len(lines) < MaxShapes
        /\ lines' = Append(lines, << start[1], start[2], end[1], end[2] >>)
        /\ shapes_drawn' = Append(shapes_drawn,
               [type |-> "line", data |-> << start[1], start[2], end[1], end[2] >>])
        /\ raised' = FALSE
        /\ UNCHANGED << rectangles, notBoardVars >>

\* where the eraser is clicked: on the drawn points, between them, and off
\* every shape
ErasePoints == BoardPoints \cup { <<3, 1>>, <<30, 30>> }

\* erase_at: the lines list without its first element equal to data
WithoutFirst(seq, data) ==
    IF \E j \in 1..Len(seq) : seq[j] = data
    THEN RemoveAt(seq, CHOOSE j \in 1..Len(seq) :
                         /\ seq[j] = data
                         /\ \A k \in 1..(j - 1) : seq[k] # data)
    ELSE seq

\* key 3, then a press at (x, y): erase_at(x, y).  The shapes are tried from
\* the last drawn backwards and the first one hit is erased.  For a rectangle
\* found at index i of shapes_drawn the code pops index i of rectangles,
\* after it has popped shapes_drawn; the pop raises IndexError when
\* rectangles has no index i.
EraseClick ==
    \E pt \in ErasePoints :
        LET hits == { i \in 1..Len(shapes_drawn) :
                        ShapeHit(shapes_drawn[i], pt[1], pt[2]) }
        IN  IF hits = {}
            THEN /\ raised' = FALSE
                 /\ UNCHANGED << rectangles, lines, shapes_drawn, notBoardVars >>
            ELSE LET i == CHOOSE h \in hits : \A k \in hits : k <= h
                     shape == shapes_drawn[i]
                 IN  /\ shapes_drawn' = RemoveAt(shapes_drawn, i)
                     /\ IF shape.type = "rectangle"
                        THEN /\ rectangles' = IF i <= Len(rectangles)
                                               THEN RemoveAt(rectangles, i)
                                               ELSE rectangles
                             /\ raised' = (i > Len(rectangles))
                             /\ UNCHANGED lines
                        ELSE /\ lines' = WithoutFirst(lines, shape.data)
                             /\ raised' = FALSE
                             /\ UNCHANGED rectangles
                     /\ UNCHANGED notBoardVars

\* key Z: undo()
Undo ==
    /\ IF shapes_drawn = << >>
       THEN UNCHANGED << rectangles, lines, shapes_drawn >>
       ELSE LET shape == shapes_drawn[Len(shapes_drawn)]
            IN  /\ shapes_drawn' = SubSeq(shapes_drawn, 1, Len(shapes_drawn) - 1)
                /\ rectangles' =
                      IF /\ shape.type = "rectangle"
                         /\ rectangles # << >>
                         /\ rectangles[Len(rectangles)] = shape.data
                      THEN SubSeq(rectangles, 1, Len(rectangles) - 1)
                      ELSE rectangles
                /\ lines' =
                      IF /\ shape.type = "line"
                         /\ lines # << >>
                         /\ lines[Len(lines)] = shape.data
                      THEN SubSeq(lines, 1, Len(lines) - 1)
                      ELSE lines
    /\ raised' = FALSE
    /\ UNCHANGED notBoardVars

\* key C: clear_all()
ClearAll ==
    /\ rectangles' = << >>
    /\ lines' = << >>
    /\ shapes_drawn' = << >>
    /\ raised' = FALSE
    /\ UNCHANGED notBoardVars

NextBoard ==
    \/ DrawRectangle
    \/ DrawLine
    \/ EraseClick
    \/ Undo
    \/ ClearAll

SpecBoard == InitBoard /\ [][NextBoard]_vars

\* ------------------------------------------ batch/run_batch_generation.py
\* One call of BatchDataGenerator.process_single_case.  A client is named by
\* the number of the attempt that started it.
MaxRetries == 5    \* max_retries ranges over 1..MaxRetries (the default is 2)
NoClient == 0

InitBatch ==
    /\ max_retries \in 1..MaxRetries
    /\ attempt = 1
    /\ pc = "top"
    /\ client = NoClient
    /\ live = {}
    /\ result = "none"
    /\ GeomIdle /\ ConcIdle /\ BoardIdle

\* model, client = self.create_single_model(params, attempt).  Inside, the
\* client is started first (mph.Client) and the model is then built in the
\* same try block; any exception ends in `return None, None`, and the caller
\* then does `continue`.
CreateSingleModel ==
    /\ pc = "top" /\ attempt <= max_retries
    /\ \E outcome \in {"client_not_started", "model_failed", "created"} :
          CASE outcome = "client_not_started" ->
                 /\ client' = NoClient
                 /\ attempt' = attempt + 1
                 /\ UNCHANGED << pc, live >>
            [] outcome = "model_failed" ->
                 /\ live' = live \cup {attempt}
                 /\ client' = NoClient
                 /\ attempt' = attempt + 1
                 /\ UNCHANGED pc
            [] outcome = "created" ->
                 /\ live' = live \cup {attempt}
                 /\ client' = attempt
                 /\ pc' = "created"
                 /\ UNCHANGED attempt
    /\ UNCHANGED << max_retries, result, notBatchVars >>

\* if not self.run_simulation_optimized(model, params): client.clear(); continue
RunSimulationOptimized ==
    /\ pc = "created"
    /\ \E ok \in BOOLEAN :
          IF ok
          THEN /\ pc' = "simulated"
               /\ UNCHANGED << attempt, live >>
          ELSE /\ live' = live \ {client}
               /\ attempt' = attempt + 1
               /\ pc' = "top"
    /\ UNCHANGED << max_retries, client, result, notBatchVars >>

\* if not self.export_data_optimized(model, params): client.clear(); continue
\* otherwise: client.clear(); return True
ExportDataOptimized ==
    /\ pc = "simulated"
    /\ live' = live \ {client}
    /\ \E ok \in BOOLEAN :
          IF ok
          THEN /\ pc' = "returned" /\ result' = "True"
               /\ UNCHANGED attempt
          ELSE /\ pc' = "top" /\ attempt' = attempt + 1
               /\ UNCHANGED result
    /\ UNCHANGED << max_retries, client, notBatchVars >>

\* the loop is exhausted: return False
ReturnFalse ==
    /\ pc = "top" /\ attempt > max_retries
    /\ pc' = "returned"
    /\ result' = "False"
    /\ UNCHANGED << max_retries, attempt, client, live, notBatchVars >>

NextBatch ==
    \/ CreateSingleModel
    \/ RunSimulationOptimized
    \/ ExportDataOptimized
    \/ ReturnFalse

SpecBatch == InitBatch /\ [][NextBatch]_vars

\* ============================================================ the properties
IsT == self.class = "TJunctionGeometry"
IsY == self.class = "YJunctionCorrected"

\* generate() has just returned; ret is its dictionary
JustGenerated == lastOp = "generate"
\* ... and it was the first generate() on the instance
FreshlyGenerated == lastOp = "generate" /\ ngen = 1
\* the outer polygon the last generate() returned
OuterPolygon == ret.polygons[1].points

\* T-junction parameters in the documented range:
\* W > 0, L_branch > W/2, W/2 <= junction_x, junction_x + W/2 <= L_main
TValid ==
    /\ IsT
    /\ self.W > 0
    /\ self.L_branch > self.half_W
    /\ self.half_W <= self.junction_x
    /\ self.junction_x + self.half_W <= self.L_main

\* Y-junction parameters in the documented range: W_main > 0, L_main > 0,
\* L_branch > 0, 0 < theta < 90 (every angle of AngleTable),
\* L_branch * sin(theta) >= W_branch / 2
YValid ==
    /\ IsY
    /\ self.W > 0 /\ self.L_main > 0 /\ self.L_branch > 0
    /\ MulSin(self.angle, self.L_branch) >= half_W_branch(self)

\* the outer port vertex of a branch lies beyond the end of the main channel:
\* L_branch * cos(theta) > (W_branch / 2) * sin(theta)
YPortBeyondMainEnd ==
    MulCos(self.angle, self.L_branch) > MulSin(self.angle, half_W_branch(self))

\* C1: a generate() that directly follows a generate() on the same instance
\* returns the same outer polygon and leaves the same boundary-segment list as
\* the first one did.
C1_GenerateIdempotent ==
    [][ (lastOp = "generate" /\ lastOp' = "generate")
            => (ret' = ret /\ boundaries' = boundaries) ]_vars

\* C2: whenever validate_boundaries() is called after generate() has run at
\* least once (also through export_for_comsol()), it returns (True, []).
C2_ValidateAfterGenerate ==
    (lastOp = "validate_boundaries" /\ ngen >= 1) => ret = << TRUE, << >> >>

\* C3: after one generate() of a T-junction, every boundary segment is an edge
\* of the outer polygon (same endpoints, in the polygon's direction) and every
\* polygon edge is the edge of exactly one segment.
C3_TSegmentsPartitionEdges ==
    (IsT /\ FreshlyGenerated) =>
        LET P == OuterPolygon
            IsEdge(k, i) ==
                boundaries[k].points = << EdgeStart(P, i), EdgeEnd(P, i) >>
        IN  /\ \A k \in 1..Len(boundaries) : \E i \in 1..NumEdges(P) : IsEdge(k, i)
            /\ \A i \in 1..NumEdges(P) :
                  Cardinality({k \in 1..Len(boundaries) : IsEdge(k, i)}) = 1

\* C4: after one generate() of the symmetric-width Y-junction, the k-th
\* segment (k = 0..8) runs from polygon vertex k to polygon vertex (k+1) mod 9.
C4_YSegmentsFollowPolygon ==
    (IsY /\ FreshlyGenerated) =>
        /\ Len(boundaries) = 9
        /\ \A k \in 0..8 :
              boundaries[k + 1].points =
                  << OuterPolygon[k + 1], OuterPolygon[((k + 1) % 9) + 1] >>

\* C5: for T-junction parameters in the documented range the outer polygon
\* generate() returns is simple.
C5_TPolygonSimple ==
    (TValid /\ JustGenerated) => IsSimple(OuterPolygon)

\* C6 as stated: for Y-junction parameters with W_main, L_main, L_branch > 0,
\* 0 < theta < 90 and L_branch * sin(theta) >= W_branch / 2 the nine-vertex
\* outer polygon is simple.
C6_YPolygonSimple_AsStated ==
    (YValid /\ JustGenerated) => IsSimple(OuterPolygon)

\* C6 as amended: under those conditions and, in addition,
\* L_branch * cos(theta) > (W_branch / 2) * sin(theta), the nine-vertex outer
\* polygon is simple.
C6_YPolygonSimple ==
    (YValid /\ YPortBeyondMainEnd /\ JustGenerated) => IsSimple(OuterPolygon)

C6_Witness ==
    /\ YValid /\ YPortBeyondMainEnd /\ JustGenerated
    /\ 2 * AngleTable[self.angle][1] < Hyp       \* theta above 60 degrees
    /\ Len(OuterPolygon) = 9
    /\ IsSimple(OuterPolygon)

\* C7: for T-junction parameters in the documented range the shoelace signed
\* area of the returned polygon, in the returned order, is positive.
C7_TPolygonCounterClockwise ==
    (TValid /\ JustGenerated) => SignedArea2(OuterPolygon) > 0

C7_Witness ==
    /\ TValid /\ JustGenerated
    /\ self.junction_x # self.L_main \div 2
    /\ SignedArea2(OuterPolygon) > 0

\* C8: for Y-junction parameters in the documented range the shoelace signed
\* area of the nine-vertex polygon, in the returned order, is positive.
C8_YPolygonCounterClockwise ==
    (YValid /\ JustGenerated) => SignedArea2(OuterPolygon) > 0

\* C9: after generate() of the symmetric-width Y-junction the Outlet1 and the
\* Outlet2 segment each have length W_main / 2, and the two lengths add up to
\* W_main, the length of the Inlet segment.
C9_YOutletWidths ==
    (IsY /\ FreshlyGenerated) =>
        LET o1 == get_boundaries_by_type(boundaries, OUTLET_1)
            o2 == get_boundaries_by_type(boundaries, OUTLET_2)
            inl == get_boundaries_by_type(boundaries, INLET)
            half == self.W \div 2
        IN  /\ Len(o1) = 1 /\ Len(o2) = 1 /\ Len(inl) = 1
            /\ HasLength(o1[1].points, half)
            /\ HasLength(o2[1].points, half)
            /\ HasLength(inl[1].points, half + half)
            /\ half + half = self.W

C9_Witness ==
    /\ IsY /\ FreshlyGenerated
    /\ self.W = 3 * Den /\ self.angle = 3
    /\ HasLength(get_boundaries_by_type(boundaries, OUTLET_1)[1].points, self.W \div 2)

\* C10: an export_for_comsol() call made after generate() leaves the
\* instance's boundary-segment list as it was.
C10_ExportDoesNotMutate ==
    [][ (lastOp' = "export_for_comsol" /\ ngen >= 1)
            => boundaries' = boundaries ]_vars

\* export_for_comsol() has just returned; ret is its record
JustExported == lastOp = "export_for_comsol"

\* the exported list xs holds coordinate c (1 for x, 2 for y) of the points,
\* in order, each times the instance's unit scale
\* (an exported value is held times Den * MilliDiv, a point times Den)
CoversPoints(xs, points, c) ==
    /\ Len(xs) = Len(points)
    /\ \A j \in 1..Len(points) : xs[j] * self.unit_div = points[j][c] * MilliDiv

\* C11: export_for_comsol() on a freshly constructed Geometry returns one
\* polygon entry (label, equally long x and y) per polygon of generate(), and
\* exactly one boundary entry (role, label, x, y) per segment of one
\* generation, in insertion order, x and y covering the segment's points.
C11_ExportShape ==
    (JustExported /\ ngen = 1) =>
        /\ Len(ret.polygons) = Len(GenerateReturn(self).polygons)
        /\ \A i \in 1..Len(ret.polygons) :
              /\ ret.polygons[i].label = GenerateReturn(self).polygons[i].label
              /\ Len(ret.polygons[i].x) = Len(ret.polygons[i].y)
              /\ Len(ret.polygons[i].x) = Len(GenerateReturn(self).polygons[i].points)
        /\ Len(boundaries) = Len(GenerateBoundaries(self, << >>))
        /\ Len(ret.boundaries) = Len(boundaries)
        /\ \A i \in 1..Len(boundaries) :
              /\ ret.boundaries[i].type = boundaries[i].boundary_type
              /\ ret.boundaries[i].label = boundaries[i].label
              /\ CoversPoints(ret.boundaries[i].x, boundaries[i].points, 1)
              /\ CoversPoints(ret.boundaries[i].y, boundaries[i].points, 2)

C11_Witness ==
    /\ JustExported /\ ngen = 1 /\ IsY
    /\ Len(ret.boundaries) = 9
    /\ ret.boundaries[4].type = OUTLET_1
    /\ ret.boundaries[4].x # ret.boundaries[4].y

\* C12: for units 'mm' every exported polygon and boundary coordinate is the
\* generated coordinate times 0.001, for units 'm' it is the generated
\* coordinate itself; dividing by that factor gives the generated coordinate.
\* (exported values are held times Den * MilliDiv, generated ones times Den)
ScaledBy(e, c, units) ==
    IF units = "mm" THEN e = c /\ (e * MilliDiv) \div MilliDiv = c
    ELSE e = c * MilliDiv /\ e \div MilliDiv = c

C12_ExportScale ==
    (JustExported /\ self.units \in {"mm", "m"}) =>
        LET P == GeneratePolygon(self)
        IN  /\ Len(ret.polygons[1].x) = Len(P) /\ Len(ret.polygons[1].y) = Len(P)
            /\ \A j \in 1..Len(P) :
                  /\ ScaledBy(ret.polygons[1].x[j], P[j][1], self.units)
                  /\ ScaledBy(ret.polygons[1].y[j], P[j][2], self.units)
            /\ Len(ret.boundaries) = Len(boundaries)
            /\ \A i \in 1..Len(boundaries) : \A j \in 1..Len(boundaries[i].points) :
                  /\ ScaledBy(ret.boundaries[i].x[j], boundaries[i].points[j][1], self.units)
                  /\ ScaledBy(ret.boundaries[i].y[j], boundaries[i].points[j][2], self.units)

C12_Witness ==
    /\ JustExported /\ self.units = "m" /\ IsT
    /\ ret.polygons[1].x[2] = self.L_main * MilliDiv
    /\ ret.polygons[1].x[2] > 0

\* how many segments of the instance's list have role t
CountRole(t) ==
    Cardinality({i \in 1..Len(boundaries) : boundaries[i].boundary_type = t})

\* C14: for any boundary list, the empty one included, validate_boundaries()
\* returns; is_valid is True exactly when there is one Inlet, at least one
\* Outlet1 or Outlet2 and at least one Wall; otherwise error_list holds
\* exactly one message per violated condition.
C14_ValidateVerdict ==
    (lastOp = "validate_boundaries") =>
        LET badInlet  == CountRole(INLET) # 1
            badOutlet == CountRole(OUTLET_1) + CountRole(OUTLET_2) < 1
            badWall   == CountRole(WALL) < 1
            Messages(e) == {i \in 1..Len(ret[2]) : ret[2][i].error = e}
            One(bad, e) == Cardinality(Messages(e)) = (IF bad THEN 1 ELSE 0)
        IN  /\ ret[1] = (~badInlet /\ ~badOutlet /\ ~badWall)
            /\ One(badInlet, "inlet count")
            /\ One(badOutlet, "too few outlets")
            /\ One(badWall, "no wall")
            /\ Len(ret[2]) = Cardinality(Messages("inlet count"))
                             + Cardinality(Messages("too few outlets"))
                             + Cardinality(Messages("no wall"))

C14_Witness ==
    /\ lastOp = "validate_boundaries"
    /\ CountRole(INLET) = 2 /\ CountRole(WALL) = 0 /\ CountRole(OUTLET_2) = 1
    /\ ret[1] = FALSE /\ Len(ret[2]) = 2

\* C15: validate_boundaries() and get_boundaries_by_type() leave the
\* boundary-segment list, the parameter record and the unit scale as they
\* were, and the same call repeated returns the same result.
C15_QueriesReadOnly ==
    [][ (lastOp' \in {"validate_boundaries", "get_boundaries_by_type"}) =>
            /\ boundaries' = boundaries
            /\ self' = self
            /\ (lastOp' = lastOp /\ arg' = arg) => ret' = ret ]_vars

C15_Witness ==
    /\ lastOp = "get_boundaries_by_type" /\ arg = WALL
    /\ ngen = 1 /\ Len(boundaries) = 9
    /\ Len(ret) > 0 /\ Len(ret) < Len(boundaries)

\* C16: get_boundaries_by_type(t) returns exactly the segments of role t,
\* each once, in the order add_boundary added them; the empty list when
\* there is none.
C16_ByTypeIsOrderedSelection ==
    (lastOp = "get_boundaries_by_type") =>
        LET idx == {i \in 1..Len(boundaries) : boundaries[i].boundary_type = arg}
            Nth(k) == CHOOSE i \in idx : Cardinality({j \in idx : j <= i}) = k
        IN  /\ Len(ret) = Cardinality(idx)
            /\ \A k \in 1..Len(ret) : ret[k] = boundaries[Nth(k)]
            /\ (idx = {}) => ret = << >>

C16_Witness ==
    /\ lastOp = "get_boundaries_by_type" /\ arg = OUTLET_2
    /\ Len(boundaries) = 4
    /\ Len(ret) = 2
    /\ ret[1] = boundaries[2] /\ ret[2] = boundaries[4]

\* C16 (the empty answer is reached as well)
C16_WitnessEmpty ==
    /\ lastOp = "get_boundaries_by_type" /\ arg = WALL
    /\ Len(boundaries) = 3 /\ ret = << >>

\* the instance computes its coordinates in millimetres: the microfluidic
\* variant always does, the other generators when 'mm' is their declared unit
CoordinatesInMillimetres ==
    self.class = "TJunctionMicrofluidic" \/ self.units = "mm"

\* the exported value e is the length c expressed in metres
\* (e held times Den * MilliDiv, c times Den)
IsMetresOf(e, c) ==
    IF CoordinatesInMillimetres THEN e = c ELSE e = c * MilliDiv

\* C13: the coordinates export_for_comsol() returns are in metres for every
\* declared unit a generator accepts, the default 'um' of the microfluidic
\* variants included (a main channel of 6 mm has x-extent 0.006).
C13_ExportInMetres ==
    JustExported =>
        LET P == GeneratePolygon(self)
        IN  \A j \in 1..Len(P) :
              /\ IsMetresOf(ret.polygons[1].x[j], P[j][1])
              /\ IsMetresOf(ret.polygons[1].y[j], P[j][2])

\* the segments of role t in the instance's list, in order
OfRole(t) ==
    LET Has(b) == b.boundary_type = t
    IN  SelectSeq(boundaries, Has)

\* every point of the segment has coordinate c (1 for x, 2 for y) equal to v
LiesOn(b, c, v) == \A j \in 1..Len(b.points) : b.points[j][c] = v

\* C17: one generate() on a fresh TJunctionGeometry emits exactly one Inlet
\* (on x = 0), one Outlet1 (on x = L_main), one Outlet2 (on y = L_branch) and
\* exactly five Walls; the branch top is not also emitted as a wall.
C17_TSegmentRoles ==
    (IsT /\ FreshlyGenerated) =>
        /\ CountRole(INLET) = 1 /\ LiesOn(OfRole(INLET)[1], 1, 0)
        /\ CountRole(OUTLET_1) = 1 /\ LiesOn(OfRole(OUTLET_1)[1], 1, self.L_main)
        /\ CountRole(OUTLET_2) = 1 /\ LiesOn(OfRole(OUTLET_2)[1], 2, self.L_branch)
        /\ CountRole(WALL) = 5
        /\ \A i \in 1..Len(boundaries) :
              boundaries[i].boundary_type = WALL
                  => ~LiesOn(boundaries[i], 2, self.L_branch)

\* C18: for T-junction parameters in the documented range the outer polygon
\* has exactly ten vertices and the Outlet2 segment has length exactly W.
C18_TTenVerticesOutletW ==
    (TValid /\ FreshlyGenerated) =>
        /\ Len(OuterPolygon) = 10
        /\ CountRole(OUTLET_2) = 1
        /\ HasLength(OfRole(OUTLET_2)[1].points, self.W)

C18_Witness ==
    /\ TValid /\ FreshlyGenerated
    /\ self.W = 2 * Den /\ self.L_main = 3 * Den /\ self.junction_x = 2 * Den
    /\ Len(OuterPolygon) = 10
    /\ OfRole(OUTLET_2)[1].points = << <<Den, self.L_branch>>, <<3 * Den, self.L_branch>> >>

\* C19: for T-junction parameters in the documented range the area enclosed
\* by the outer polygon (shoelace) is that of the union of the main channel
\* and the branch: L_main * W + W * (L_branch - W/2).
C19_TPolygonArea ==
    (TValid /\ JustGenerated) =>
        LET a2 == SignedArea2(OuterPolygon)
        IN  (IF a2 < 0 THEN 0 - a2 ELSE a2)
              = 2 * (self.L_main * self.W + self.W * (self.L_branch - self.half_W))

\* C20: the symmetric-width Y-junction polygon has nine vertices in the order
\* inlet-bottom, inlet-top, main-end-top, upper-port-outer, upper-port-inner,
\* bifurcation point, lower-port-inner, lower-port-outer, main-end-bottom;
\* the port vertices of a branch are bifurcation + L_branch * direction
\* +/- (W_branch/2) * normal, the outer one farther from the axis y = 0.
C20_YNamedVertices ==
    (IsY /\ JustGenerated) =>
        LET P   == OuterPolygon
            hwm == self.W \div 2
            hwb == self.W \div 4
            cx  == self.L_main + MulCos(self.angle, self.L_branch)
            cy  == MulSin(self.angle, self.L_branch)
            nx  == MulSin(self.angle, hwb)
            ny  == MulCos(self.angle, hwb)
            Dist(v) == IF v[2] < 0 THEN 0 - v[2] ELSE v[2]
        IN  /\ Len(P) = 9
            /\ P[1] = << 0, 0 - hwm >> /\ P[2] = << 0, hwm >>
            /\ P[3] = << self.L_main, hwm >>
            /\ P[4] = << cx - nx, cy + ny >> /\ P[5] = << cx + nx, cy - ny >>
            /\ P[6] = << self.L_main, 0 >>
            /\ P[7] = << cx + nx, ny - cy >> /\ P[8] = << cx - nx, 0 - cy - ny >>
            /\ P[9] = << self.L_main, 0 - hwm >>
            /\ Dist(P[4]) > Dist(P[5])
            /\ Dist(P[8]) > Dist(P[7])

C20_Witness ==
    /\ IsY /\ JustGenerated
    /\ self.angle = 4 /\ self.W = 4 * Den /\ self.L_branch = 2 * Den
    /\ OuterPolygon[4][2] > OuterPolygon[5][2]
    /\ OuterPolygon[5][2] > 0

\* twice the y coordinate of the midpoint of a two-point segment
MidY2(b) == b.points[1][2] + b.points[2][2]

\* C21: one generate() on a fresh YJunctionCorrected emits exactly nine
\* segments with roles, in order, Inlet, Wall, Wall, Outlet1, Wall, Wall,
\* Outlet2, Wall, Wall: the Inlet at index 0 (on x = 0), Outlet1 at index 3 on
\* the upper branch, Outlet2 at index 6 on the lower branch.
C21_YSegmentRoleOrder ==
    (IsY /\ FreshlyGenerated) =>
        /\ Len(boundaries) = 9
        /\ [k \in 1..9 |-> boundaries[k].boundary_type]
              = << INLET, WALL, WALL, OUTLET_1, WALL, WALL, OUTLET_2, WALL, WALL >>
        /\ LiesOn(boundaries[1], 1, 0)
        /\ MidY2(boundaries[4]) > 0
        /\ MidY2(boundaries[7]) < 0

C21_Witness ==
    /\ IsY /\ FreshlyGenerated
    /\ self.angle = 3 /\ self.L_branch = 3 * Den
    /\ boundaries[4].label = "OUTLET1"
    /\ boundaries[7].label = "OUTLET2"
    /\ MidY2(boundaries[4]) = 0 - MidY2(boundaries[7])

\* C22: a TJunctionGeometry built with parameters outside the documented
\* range (zero or negative width, junction_x outside [W/2, L_main - W/2]) is
\* constructed and generated like any other: generate() returns its
\* dictionary with ten polygon vertices and the same nine segment roles, and
\* the coordinates follow from the constructor arguments by the same
\* arithmetic (half width W/2, branch at junction_x -/+ W/2).
C22_InvalidParametersNotGuarded ==
    (IsT /\ FreshlyGenerated /\ ~TValid) =>
        LET q  == self.geometry_params
            hw == q.W \div 2
        IN  /\ ret.params = q
            /\ Len(OuterPolygon) = 10
            /\ OuterPolygon[1] = << 0, 0 - hw >>
            /\ OuterPolygon[3] = << q.L_main, hw >>
            /\ OuterPolygon[6] = << q.junction_x + hw, q.L_branch >>
            /\ OuterPolygon[9] = << q.junction_x - hw, 0 - hw >>
            /\ Len(boundaries) = 9
            /\ [k \in 1..9 |-> boundaries[k].boundary_type]
                  = << INLET, OUTLET_1, OUTLET_2, WALL, WALL, WALL, WALL, WALL, WALL >>
            /\ boundaries[1].points = << <<0, 0 - hw>>, <<0, hw>> >>
            /\ boundaries[3].points = << <<q.junction_x - hw, q.L_branch>>,
                                         <<q.junction_x + hw, q.L_branch>> >>

\* a negative width, with the branch hanging over the end of the main channel
C22_Witness ==
    /\ IsT /\ FreshlyGenerated
    /\ self.W = 0 - 2 * Den
    /\ self.junction_x = self.L_main
    /\ OuterPolygon[1] = << 0, Den >>
    /\ Len(boundaries) = 9

\* a zero width: the main channel collapses onto the axis
C22_WitnessZeroWidth ==
    /\ IsT /\ FreshlyGenerated
    /\ self.W = 0
    /\ OuterPolygon[1] = << 0, 0 >> /\ OuterPolygon[3] = << self.L_main, 0 >>

\* the boundaries attribute of thread i's instance
BoundariesOf(i) == lists[ListOf(i)]

\* C23: with the add_boundary steps of two concurrent generate() calls on two
\* instances interleaved in any order, each instance holds at every moment
\* the segments its own generate() has added so far, in order, and once both
\* have returned each holds exactly the list a generate() run on its own
\* produces; nothing added for one instance is in the list of the other.
C23_ConcurrentGenerateIndependent ==
    \A i \in DOMAIN insts :
        /\ BoundariesOf(i) = SubSeq(GenerateCalls(insts[i]), 1, calls[i])
        /\ phase[i] = "returned" =>
              BoundariesOf(i) = GenerateBoundaries(insts[i], << >>)

\* a T-junction and a Y-junction both part way through generate(), each
\* holding its own first segments
C23_Witness ==
    /\ DOMAIN insts = Threads
    /\ insts[1].class = "TJunctionGeometry" /\ insts[2].class = "YJunctionCorrected"
    /\ phase[1] = "running" /\ phase[2] = "running"
    /\ calls[1] = 4 /\ calls[2] = 5
    /\ BoundariesOf(1)[4].label = "WALL-bottom"
    /\ BoundariesOf(2)[5].label = "WALL-upper-inner"

\* the segment has at least two points and no two consecutive points coincide
ProperSegment(b) ==
    /\ Len(b.points) >= 2
    /\ \A j \in 1..(Len(b.points) - 1) : b.points[j] # b.points[j + 1]

\* C24: for T-junction and Y-junction parameters in their documented ranges,
\* the boundary values junction_x = W/2 and junction_x + W/2 = L_main
\* included, every segment generate() emits has at least two points and no
\* two consecutive points of it coincide.
C24_SegmentsNotDegenerate ==
    ((TValid \/ YValid) /\ FreshlyGenerated) =>
        \A k \in 1..Len(boundaries) : ProperSegment(boundaries[k])

IsYSym == self.class = "YJunctionSymmetric"

\* (x, y) -> (x, -y)
Mirror(p) == << p[1], 0 - p[2] >>

\* the segment a-b is an edge of the polygon P, in either direction
IsEdgeOf(P, a, b) ==
    \E i \in 1..NumEdges(P) :
        \/ (EdgeStart(P, i) = a /\ EdgeEnd(P, i) = b)
        \/ (EdgeStart(P, i) = b /\ EdgeEnd(P, i) = a)

\* the two segments are mirror images of each other in the axis y = 0
MirrorSegments(b1, b2) ==
    { Mirror(b1.points[1]), Mirror(b1.points[2]) } = { b2.points[1], b2.points[2] }

\* C26: the domain YJunctionSymmetric.generate() produces is mirror-symmetric
\* about y = 0: the mirror image of every polygon edge is an edge of the
\* polygon, and Outlet1 and Outlet2 are mirror images of equal length.
C26_YSymmetricMirror ==
    (IsYSym /\ FreshlyGenerated) =>
        LET P == OuterPolygon
        IN  /\ \A i \in 1..NumEdges(P) :
                  IsEdgeOf(P, Mirror(EdgeStart(P, i)), Mirror(EdgeEnd(P, i)))
            /\ CountRole(OUTLET_1) = 1 /\ CountRole(OUTLET_2) = 1
            /\ MirrorSegments(OfRole(OUTLET_1)[1], OfRole(OUTLET_2)[1])
            /\ SqLength(OfRole(OUTLET_1)[1].points) = SqLength(OfRole(OUTLET_2)[1].points)

\* the keys Test 4 of test_geometry.py reads from a T-junction's parameters
TestReadsKeys == {"type", "L_main", "L_branch", "W", "W_branch", "junction_angle"}

\* C27: the parameter record of a TJunctionGeometry, as the instance holds it
\* and as generate() and export_for_comsol() return it, has every key the
\* geometry test reads: type, L_main, L_branch, W, W_branch, junction_angle.
C27_TParamsHaveTestedKeys ==
    (IsT /\ lastOp \in {"generate", "export_for_comsol"}) =>
        /\ TestReadsKeys \subseteq DOMAIN self.geometry_params
        /\ TestReadsKeys \subseteq DOMAIN ret.params

IsYGeom == self.class = "YJunctionGeometry"

\* no two non-adjacent edges of the polygon share a point
NonAdjacentEdgesApart(P) ==
    LET n == NumEdges(P)
        NextEdge(i) == IF i = n THEN 1 ELSE i + 1
    IN  \A i \in 1..n : \A j \in (i + 1)..n :
            (j # NextEdge(i) /\ i # NextEdge(j)) =>
                ~SegmentsMeet(EdgeStart(P, i), EdgeEnd(P, i),
                              EdgeStart(P, j), EdgeEnd(P, j))

\* C28: for YJunctionGeometry with W > 0, 0 < angle < 90 (every angle of
\* AngleTable) and L_branch * sin(angle) >= W/2, the eight-vertex outer
\* polygon generate() returns is simple: no two non-adjacent edges share a
\* point.
C28_YGeometryPolygonSimple ==
    (/\ IsYGeom /\ JustGenerated
     /\ self.W > 0
     /\ MulSin(self.angle, self.L_branch) >= self.half_W) =>
        /\ Len(OuterPolygon) = 8
        /\ NonAdjacentEdgesApart(OuterPolygon)

\* the least and the greatest coordinate c (1 for x, 2 for y) of the vertices
MinCoord(P, c) == CHOOSE m \in { P[j][c] : j \in 1..Len(P) } :
                      \A j \in 1..Len(P) : m <= P[j][c]
MaxCoord(P, c) == CHOOSE m \in { P[j][c] : j \in 1..Len(P) } :
                      \A j \in 1..Len(P) : P[j][c] <= m

\* the total length of the segments of bs, all of them horizontal
RECURSIVE HorizontalTotal(_)
HorizontalTotal(bs) ==
    IF bs = << >> THEN 0
    ELSE LET d == Head(bs).points[2][1] - Head(bs).points[1][1]
         IN  (IF d < 0 THEN 0 - d ELSE d) + HorizontalTotal(Tail(bs))

\* polygon P with segments bs is a straight channel: a rectangle of four
\* vertices, length L along x and width W along y, one Inlet of length W on
\* its left edge, one Outlet1 of length W on its right edge, no other outlet,
\* and horizontal Walls of total length 2 * L
IsStraightChannel(P, bs) ==
    LET L == MaxCoord(P, 1) - MinCoord(P, 1)
        W == MaxCoord(P, 2) - MinCoord(P, 2)
        inlets   == get_boundaries_by_type(bs, INLET)
        outlets1 == get_boundaries_by_type(bs, OUTLET_1)
        walls    == get_boundaries_by_type(bs, WALL)
    IN  /\ NumEdges(P) = 4
        /\ Len(inlets) = 1
        /\ LiesOn(inlets[1], 1, MinCoord(P, 1)) /\ HasLength(inlets[1].points, W)
        /\ Len(outlets1) = 1
        /\ LiesOn(outlets1[1], 1, MaxCoord(P, 1)) /\ HasLength(outlets1[1].points, W)
        /\ get_boundaries_by_type(bs, OUTLET_2) = << >>
        /\ \A k \in 1..Len(walls) : walls[k].points[1][2] = walls[k].points[2][2]
        /\ HorizontalTotal(walls) = 2 * L

\* C25: the geometry subsystem provides a straight-channel generator: the
\* instance in hand or some other instance the subsystem constructs yields,
\* for its length L and width W, a four-vertex outer polygon with one Inlet
\* of length W on the left edge, one Outlet1 of length W on the right edge,
\* and Walls of total length 2 * L.
C25_StraightChannelProvided ==
    \/ IsStraightChannel(GeneratePolygon(self), GenerateBoundaries(self, << >>))
    \/ \E g \in Instances :
          IsStraightChannel(GeneratePolygon(g), GenerateBoundaries(g, << >>))

\* how many times d occurs in the sequence
Occurrences(seq, d) == Cardinality({ i \in 1..Len(seq) : seq[i] = d })

\* the data of the entries of shapes_drawn of the given type, in order
DataOfType(type) ==
    LET Is(sh) == sh.type = type
        sel == SelectSeq(shapes_drawn, Is)
    IN  [i \in 1..Len(sel) |-> sel[i].data]

\* the two sequences hold the same elements with the same multiplicity
SameElements(s1, s2) ==
    /\ Len(s1) = Len(s2)
    /\ \A i \in 1..Len(s1) : Occurrences(s1, s1[i]) = Occurrences(s2, s1[i])

\* C29: after any sequence of rectangle draws, line draws, erase clicks, undo
\* and clear-all on the DrawingBoard, no operation has raised, rectangles
\* holds exactly the data of the rectangle entries of shapes_drawn and lines
\* exactly the data of its line entries.
C29_BoardListsAgree ==
    /\ ~raised
    /\ SameElements(rectangles, DataOfType("rectangle"))
    /\ SameElements(lines, DataOfType("line"))

\* C30: in process_single_case every client started during an attempt is
\* cleared before the next attempt starts or the call returns: the only
\* client that may be running is the one of the attempt in progress.
C30_ClientsCleared ==
    /\ pc \in {"top", "returned"} => live = {}
    /\ pc \in {"created", "simulated"} => live \subseteq {client}

====
